---- MODULE Spec2Model ----
(***************************************************************************)
(* AttackMatrix (src/attackmatrix.py): the transformer that turns a STIX   *)
(* bundle into a per-matrix graph (Transform), the cache files written by  *)
(* the command-line run and read by loadCache/loadCaches, and the query    *)
(* functions search, findActorOverlap and findTTPOverlap.                  *)
(*                                                                         *)
(* Python strings are modelled as sequences of tokens (a token stands for  *)
(* one or more characters), so that lower(), split('.'), rstrip('/') and   *)
(* the substring test "a in b" are computed and not assumed.  The empty    *)
(* sequence is the empty string, which is also how an absent optional      *)
(* field of a bundle record is written (both are falsy for entry.get).     *)
(***************************************************************************)
EXTENDS Integers, Sequences, FiniteSets, TLC

VARIABLES
    bundle,     \* AttackMatrix['objects'], the records Transform reads
    options,    \* options.matrix, options.revoked, options.deprecated
    pc,         \* the loop of Transform that is running, "done" or "raised"
    idx,        \* position of that loop in bundle
    matrix,     \* matrix[options.matrix], the graph under construction
    locals,     \* Transform's local variables that outlive a loop iteration
    cache,      \* the cache file of every known matrix
    query,      \* the last query issued and its arguments
    result,     \* what that query returned
    inmemory    \* the graphs that query unpickled, as they are when it returns

vars == <<bundle, options, pc, idx, matrix, locals, cache, query, result, inmemory>>

-----------------------------------------------------------------------------
(* Strings *)

\* str.lower() of one token
LowerTok(t) ==
    CASE t = "D" -> "d"
      [] t = "O" -> "o"
      [] t = "G" -> "g"
      [] t = "Impact" -> "impact"
      [] t = "Pre" -> "pre"
      [] t = "ATTACK" -> "attack"
      [] OTHER -> t

\* str.capitalize() of the first token of a word
CapTok(t) ==
    CASE t = "d" -> "D"
      [] t = "o" -> "O"
      [] t = "g" -> "G"
      [] t = "impact" -> "Impact"
      [] t = "pre" -> "Pre"
      [] OTHER -> t

Lower(s) == [i \in 1..Len(s) |-> LowerTok(s[i])]

\* the substring test: needle in hay
Contains(hay, needle) ==
    \E i \in 0..(Len(hay) - Len(needle)) :
        \A j \in 1..Len(needle) : hay[i + j] = needle[j]

\* membership in a list: x in lst
InList(x, lst) == \E i \in 1..Len(lst) : lst[i] = x

\* id.split('.')[0]
RECURSIVE SplitDotHead(_)
SplitDotHead(s) ==
    IF s = <<>> \/ Head(s) = "." THEN <<>>
    ELSE <<Head(s)>> \o SplitDotHead(Tail(s))

\* s.rstrip('/')
RECURSIVE RstripSlash(_)
RstripSlash(s) ==
    IF s # <<>> /\ s[Len(s)] = "/" THEN RstripSlash(SubSeq(s, 1, Len(s) - 1))
    ELSE s

\* s.replace('-', ' ')
ReplaceDash(s) == [i \in 1..Len(s) |-> IF s[i] = "-" THEN " " ELSE s[i]]

\* s.split() on whitespace: the list of words, empty words dropped
RECURSIVE SplitWords(_, _)
SplitWords(s, word) ==
    IF s = <<>> THEN (IF word = <<>> THEN <<>> ELSE <<word>>)
    ELSE IF Head(s) = " "
         THEN (IF word = <<>> THEN <<>> ELSE <<word>>) \o SplitWords(Tail(s), <<>>)
         ELSE SplitWords(Tail(s), Append(word, Head(s)))

Capitalize(w) == <<CapTok(LowerTok(w[1]))>> \o Lower(Tail(w))

RECURSIVE JoinSpace(_)
JoinSpace(ws) ==
    IF ws = <<>> THEN <<>>
    ELSE IF Len(ws) = 1 THEN ws[1]
    ELSE ws[1] \o <<" ">> \o JoinSpace(Tail(ws))

\* string.capwords(s)
Capwords(s) ==
    LET ws == SplitWords(s, <<>>)
    IN  JoinSpace([i \in 1..Len(ws) |-> Capitalize(ws[i])])

\* a Python value that is a str / a list of str (isinstance(x, list) reads t)
PyStr(s) == [t |-> "str", v |-> s]
PyList(l) == [t |-> "list", v |-> l]

-----------------------------------------------------------------------------
(* Transform: helpers *)

\* a local variable that no statement has assigned yet
Unbound == <<"<unbound>">>
UnboundName == "<unbound>"

InitLocals ==
    [id |-> Unbound, technique |-> Unbound,
     relationship_type |-> UnboundName,
     sourcetype |-> UnboundName, targettype |-> UnboundName]

\* "not entry.get('revoked') or (entry.get('revoked') and options.revoked)"
\* and the same test of x_mitre_deprecated, the head of every loop but two
EligibleMutant(entry, opts) ==
    \/ ~entry.revoked
    \/ (entry.revoked /\ opts.revoked)

Eligible(entry, opts) ==
    /\ (~entry.revoked \/ (entry.revoked /\ opts.revoked))
    /\ (~entry.x_mitre_deprecated \/ (entry.x_mitre_deprecated /\ opts.deprecated))

\* the head of the malware and the tool loop: "if not entry.get('revoked')"
EligibleSoftwareMutant(entry, opts) == Eligible(entry, opts)

EligibleSoftware(entry, opts) ==
    /\ ~entry.revoked
    /\ (~entry.x_mitre_deprecated \/ (entry.x_mitre_deprecated /\ opts.deprecated))

\* "if 'mitre' and 'attack' in external_reference['source_name'].lower()":
\* the left operand of "and" is a non-empty literal, so only 'attack' is tested
AttackNamespace(source_name) == Contains(Lower(source_name), <<"attack">>)

\* the loop over entry['external_references'] that assigns id: every matching
\* reference overwrites id, a record without one leaves id as it was
RECURSIVE ResolveId(_, _)
ResolveId(id, refs) ==
    IF refs = <<>> THEN id
    ELSE LET ref == Head(refs)
         IN  IF ref.external_id # <<>> /\ AttackNamespace(ref.source_name)
             THEN ResolveId(ref.external_id, Tail(refs))
             ELSE ResolveId(id, Tail(refs))

\* matrix[options.matrix][kind][id] = entity
Put(m, kind, id, entity) == [m EXCEPT ![kind] = (id :> entity) @@ @]

Has(m, kind, id) == id \in DOMAIN m[kind]

\* lst.append(x)
AppendTo(m, kind, id, key, x) == [m EXCEPT ![kind][id][key] = Append(@, x)]

\* the state Transform carries from one loop iteration to the next
Frame(m, l, r) == [matrix |-> m, locals |-> l, raised |-> r]

Raise(st) == [st EXCEPT !.raised = TRUE]

\* "description = entry['description'] if entry.get('description') else ..."
DescriptionOf(entry) ==
    IF entry.description # <<>> THEN entry.description ELSE <<"Not available.">>

-----------------------------------------------------------------------------
(* Transform: the body of each loop, for one record *)

TacticsBody(st, entry, opts) ==
    IF Eligible(entry, opts) /\ entry.type = "x-mitre-tactic"
    THEN LET id == ResolveId(st.locals.id, entry.external_references)
         IN  IF id = Unbound THEN Raise(st)
             ELSE [st EXCEPT
                     !.locals.id = id,
                     !.matrix = Put(@, "Tactics", id,
                         [name |-> PyStr(entry.name),
                          description |-> PyStr(entry.description),
                          Techniques |-> <<>>])]
    ELSE st

\* the tactics whose name is inside one of the entry's ATT&CK phase names
PhaseMatches(tacticname, phases) ==
    \E i \in 1..Len(phases) :
        /\ Contains(phases[i].kill_chain_name, <<"attack">>)
        /\ phases[i].phase_name # <<>>
        /\ Contains(Lower(Capwords(ReplaceDash(phases[i].phase_name))),
                    Lower(tacticname))

LinkTactics(m, id, phases) ==
    LET tactics == m["Tactics"]
    IN  [m EXCEPT !["Tactics"] =
            [t \in DOMAIN tactics |->
                IF /\ PhaseMatches(tactics[t].name.v, phases)
                   /\ ~InList(id, tactics[t].Techniques)
                THEN [tactics[t] EXCEPT !.Techniques = Append(@, id)]
                ELSE tactics[t]]]

TechniquesBody(st, entry, opts) ==
    IF /\ Eligible(entry, opts)
       /\ entry.type = "attack-pattern"
       /\ ~entry.x_mitre_is_subtechnique
    THEN LET id == ResolveId(st.locals.id, entry.external_references)
         IN  IF id = Unbound THEN Raise([st EXCEPT !.locals.technique = entry.name])
             ELSE [st EXCEPT
                     !.locals.id = id,
                     !.locals.technique = entry.name,
                     !.matrix = LinkTactics(
                         Put(@, "Techniques", id,
                             [name |-> PyStr(entry.name),
                              description |-> PyStr(DescriptionOf(entry)),
                              Actors |-> <<>>, Malwares |-> <<>>,
                              Mitigations |-> <<>>, Subtechniques |-> <<>>,
                              Tools |-> <<>>]),
                         id, entry.kill_chain_phases)]
    ELSE st

\* the references loop of a subtechnique: every matching reference assigns id
\* and technique and reads the parent technique's name (a KeyError without it)
RECURSIVE ResolveParent(_, _, _)
ResolveParent(m, l, refs) ==
    IF refs = <<>> THEN [locals |-> l, raised |-> FALSE]
    ELSE LET ref == Head(refs)
         IN  IF ref.external_id # <<>> /\ AttackNamespace(ref.source_name)
             THEN LET l2 == [l EXCEPT !.id = ref.external_id,
                                      !.technique = SplitDotHead(ref.external_id)]
                  IN  IF Has(m, "Techniques", l2.technique)
                      THEN ResolveParent(m, l2, Tail(refs))
                      ELSE [locals |-> l2, raised |-> TRUE]
             ELSE ResolveParent(m, l, Tail(refs))

SubtechniquesBody(st, entry, opts) ==
    IF /\ Eligible(entry, opts)
       /\ entry.type = "attack-pattern"
       /\ entry.x_mitre_is_subtechnique
    THEN LET r == ResolveParent(st.matrix, st.locals, entry.external_references)
             id == r.locals.id
             technique == r.locals.technique
         IN  IF r.raised \/ id = Unbound \/ technique = Unbound
             THEN Frame(st.matrix, r.locals, TRUE)
             ELSE LET m2 == Put(st.matrix, "Subtechniques", id,
                             [name |-> PyStr(entry.name),
                              subtechnique_of |-> technique,
                              description |-> PyStr(DescriptionOf(entry)),
                              Actors |-> <<>>, Malwares |-> <<>>,
                              Mitigations |-> <<>>, Subtechniques |-> <<>>,
                              Tools |-> <<>>])
                  IN  IF Has(m2, "Techniques", technique)
                      THEN Frame(AppendTo(m2, "Techniques", technique,
                                          "Subtechniques", id),
                                 r.locals, FALSE)
                      ELSE Frame(m2, r.locals, TRUE)
    ELSE st

ActorsBody(st, entry, opts) ==
    IF Eligible(entry, opts) /\ entry.type = "intrusion-set"
    THEN LET id == ResolveId(st.locals.id, entry.external_references)
             names == IF entry.aliases # <<>> THEN PyList(entry.aliases)
                      ELSE PyStr(entry.name)
         IN  IF id = Unbound THEN Raise(st)
             ELSE [st EXCEPT
                     !.locals.id = id,
                     !.matrix = Put(@, "Actors", id,
                         [name |-> names,
                          description |-> PyStr(DescriptionOf(entry)),
                          Malwares |-> <<>>, Subtechniques |-> <<>>,
                          Techniques |-> <<>>, Tools |-> <<>>])]
    ELSE st

MalwaresBody(st, entry, opts) ==
    IF EligibleSoftware(entry, opts) /\ entry.type = "malware"
    THEN LET id == ResolveId(st.locals.id, entry.external_references)
         IN  IF id = Unbound THEN Raise(st)
             ELSE [st EXCEPT
                     !.locals.id = id,
                     !.matrix = Put(@, "Malwares", id,
                         [name |-> PyList(entry.x_mitre_aliases),
                          description |-> PyStr(DescriptionOf(entry)),
                          Actors |-> <<>>, Subtechniques |-> <<>>,
                          Techniques |-> <<>>])]
    ELSE st

MitigationsBody(st, entry, opts) ==
    IF Eligible(entry, opts) /\ entry.type = "course-of-action"
    THEN LET id == ResolveId(st.locals.id, entry.external_references)
         IN  IF id = Unbound THEN Raise(st)
             ELSE [st EXCEPT
                     !.locals.id = id,
                     !.matrix = Put(@, "Mitigations", id,
                         [name |-> PyStr(entry.name),
                          description |-> PyStr(entry.description),
                          Subtechniques |-> <<>>, Techniques |-> <<>>])]
    ELSE st

ToolsBody(st, entry, opts) ==
    IF EligibleSoftware(entry, opts) /\ entry.type = "tool"
    THEN LET id == ResolveId(st.locals.id, entry.external_references)
         IN  IF id = Unbound THEN Raise(st)
             ELSE [st EXCEPT
                     !.locals.id = id,
                     !.matrix = Put(@, "Tools", id,
                         [name |-> PyList(entry.x_mitre_aliases),
                          description |-> PyStr(entry.description),
                          Actors |-> <<>>, Subtechniques |-> <<>>,
                          Techniques |-> <<>>])]
    ELSE st

\* the kind a record type links under; any other type leaves the variable as
\* the previous relationship (or nothing) set it
TypeKind(type, kind) ==
    CASE type = "attack-pattern" -> "Techniques"
      [] type = "intrusion-set" -> "Actors"
      [] type = "malware" -> "Malwares"
      [] type = "course-of-action" -> "Mitigations"
      [] type = "tool" -> "Tools"
      [] OTHER -> kind

\* the references loop of an endpoint: the id, and Subtechniques for a dotted id
RECURSIVE EndpointRefs(_, _, _)
EndpointRefs(refs, kind, id) ==
    IF refs = <<>> THEN [kind |-> kind, id |-> id]
    ELSE LET ref == Head(refs)
         IN  IF ref.external_id # <<>> /\ AttackNamespace(ref.source_name)
             THEN EndpointRefs(Tail(refs),
                               IF InList(".", ref.external_id)
                               THEN "Subtechniques" ELSE kind,
                               ref.external_id)
             ELSE EndpointRefs(Tail(refs), kind, id)

\* "for sourceentry in AttackMatrix['objects']": no filter is applied here, every
\* record whose id equals the reference (case-insensitively) sets type and id
RECURSIVE ResolveEndpoint(_, _, _, _)
ResolveEndpoint(objs, ref, kind, id) ==
    IF objs = <<>> THEN [kind |-> kind, id |-> id]
    ELSE LET e == Head(objs)
         IN  IF Lower(e.id) = Lower(ref)
             THEN LET r == EndpointRefs(e.external_references,
                                        TypeKind(e.type, kind), id)
                  IN  ResolveEndpoint(Tail(objs), ref, r.kind, r.id)
             ELSE ResolveEndpoint(Tail(objs), ref, kind, id)

\* one "try: if b not in matrix[..][ka][a][kb]: append(b) except KeyError: pass"
AddLinkBothPresent(m, ka, a, kb, b) ==
    IF Has(m, ka, a) /\ kb \in DOMAIN m[ka][a] /\ Has(m, kb, b)
    THEN IF InList(b, m[ka][a][kb]) THEN m ELSE AppendTo(m, ka, a, kb, b)
    ELSE m

AddLink(m, ka, a, kb, b) ==
    IF Has(m, ka, a) /\ kb \in DOMAIN m[ka][a]
    THEN IF InList(b, m[ka][a][kb]) THEN m ELSE AppendTo(m, ka, a, kb, b)
    ELSE m

LinkBody(st, entry, objs, opts) ==
    IF Eligible(entry, opts) /\ entry.type # ""
    THEN LET rt == IF entry.relationship_type # "" THEN entry.relationship_type
                   ELSE st.locals.relationship_type
             l1 == [st.locals EXCEPT !.relationship_type = rt]
         IN  IF entry.type # "relationship" THEN Frame(st.matrix, l1, FALSE)
             ELSE IF rt = UnboundName THEN Frame(st.matrix, l1, TRUE)
             ELSE IF rt \notin {"mitigates", "uses"} THEN Frame(st.matrix, l1, FALSE)
             ELSE LET s == ResolveEndpoint(objs, entry.source_ref, l1.sourcetype, <<>>)
                      t == ResolveEndpoint(objs, entry.target_ref, l1.targettype, <<>>)
                      l2 == [l1 EXCEPT !.sourcetype = s.kind, !.targettype = t.kind]
                  IN  IF s.id # <<>> /\ t.id # <<>> /\ s.id # t.id
                      THEN IF s.kind = UnboundName \/ t.kind = UnboundName
                           THEN Frame(st.matrix, l2, TRUE)
                           ELSE Frame(AddLink(AddLink(st.matrix, s.kind, s.id,
                                                      t.kind, t.id),
                                              t.kind, t.id, s.kind, s.id),
                                      l2, FALSE)
                      ELSE Frame(st.matrix, l2, FALSE)
    ELSE st

-----------------------------------------------------------------------------
(* Transform: control *)

Loops == <<"Tactics", "Techniques", "Subtechniques", "Actors", "Malwares",
           "Mitigations", "Tools", "Link">>

LoopNames == {Loops[i] : i \in 1..Len(Loops)}

\* the statement after a loop: the next loop, or "return matrix"
AfterLoop(p) ==
    IF p = "Link" THEN "done"
    ELSE Loops[(CHOOSE i \in 1..Len(Loops) : Loops[i] = p) + 1]

\* "matrix[options.matrix]['Tactics'] = {}" and its like, before each loop
NewKind(m, p) == IF p \in {"Link", "done"} THEN m ELSE (p :> <<>>) @@ m

InitMatrix == NewKind(<<>>, "Tactics")

Body(p, st, entry, objs, opts) ==
    CASE p = "Tactics" -> TacticsBody(st, entry, opts)
      [] p = "Techniques" -> TechniquesBody(st, entry, opts)
      [] p = "Subtechniques" -> SubtechniquesBody(st, entry, opts)
      [] p = "Actors" -> ActorsBody(st, entry, opts)
      [] p = "Malwares" -> MalwaresBody(st, entry, opts)
      [] p = "Mitigations" -> MitigationsBody(st, entry, opts)
      [] p = "Tools" -> ToolsBody(st, entry, opts)
      [] p = "Link" -> LinkBody(st, entry, objs, opts)

\* Transform(options, AttackMatrix) run to its end: the graph, or raised
RECURSIVE RunFrom(_, _, _, _, _)
RunFrom(p, i, st, objs, opts) ==
    IF st.raised \/ p = "done" THEN st
    ELSE IF i > Len(objs)
         THEN RunFrom(AfterLoop(p), 1,
                      [st EXCEPT !.matrix = NewKind(@, AfterLoop(p))], objs, opts)
         ELSE RunFrom(p, i + 1, Body(p, st, objs[i], objs, opts), objs, opts)

Transform(opts, objs) ==
    RunFrom("Tactics", 1, Frame(InitMatrix, InitLocals, FALSE), objs, opts)

-----------------------------------------------------------------------------
(* Bundles *)

\* longest bundle Transform is run on
MaxLen == 3

Base ==
    [type |-> "", id |-> <<>>, name |-> <<>>, description |-> <<>>,
     aliases |-> <<>>, x_mitre_aliases |-> <<>>,
     external_references |-> <<>>, kill_chain_phases |-> <<>>,
     x_mitre_is_subtechnique |-> FALSE, revoked |-> FALSE,
     x_mitre_deprecated |-> FALSE,
     relationship_type |-> "", source_ref |-> <<>>, target_ref |-> <<>>]

AttackRef(id) == [source_name |-> <<"mitre-", "attack">>, external_id |-> id]
CapecRef(id) == [source_name |-> <<"capec">>, external_id |-> id]

Object(type, stix, name, description, refs) ==
    [Base EXCEPT !.type = type, !.id = <<stix>>, !.name = name,
                 !.description = description, !.external_references = refs]

Relationship(stix, rtype, source, target) ==
    [Base EXCEPT !.type = "relationship", !.id = <<stix>>,
                 !.relationship_type = rtype,
                 !.source_ref = <<source>>, !.target_ref = <<target>>]

Tactic1 ==
    [Object("x-mitre-tactic", "tactic--1", <<"Impact">>, <<"d", "o">>,
            <<AttackRef(<<"TA1">>)>>)
        EXCEPT !.x_mitre_deprecated = TRUE]
Technique1 ==
    [Object("attack-pattern", "pattern--1", <<"D", "o">>, <<"o", "D">>,
            <<CapecRef(<<"C9">>), AttackRef(<<"T1">>)>>)
        EXCEPT !.x_mitre_deprecated = TRUE,
               !.kill_chain_phases =
                   <<[kill_chain_name |-> <<"mitre-", "attack">>,
                      phase_name |-> <<"impact">>]>>]
Subtechnique1 ==
    [Object("attack-pattern", "pattern--2", <<"g", "o">>, <<>>,
            <<AttackRef(<<"T1", ".", "001">>)>>)
        EXCEPT !.x_mitre_is_subtechnique = TRUE, !.revoked = TRUE]
Actor1 ==
    [Object("intrusion-set", "actor--1", <<"G", "o">>, <<"d">>,
            <<AttackRef(<<"G1">>)>>)
        EXCEPT !.aliases = <<<<"G", "o">>, <<"D", "o", "g">>>>]
ActorNoRef ==
    [Object("intrusion-set", "actor--2", <<"o", "g">>, <<"g">>,
            <<CapecRef(<<"C2">>)>>)
        EXCEPT !.revoked = TRUE]
Actor2 ==
    Object("intrusion-set", "actor--3", <<"O", "d">>, <<"o", "d">>,
           <<AttackRef(<<"G2">>)>>)
Mitigation1 ==
    [Object("course-of-action", "coa--1", <<"D">>, <<"o">>,
            <<AttackRef(<<"M1">>)>>)
        EXCEPT !.x_mitre_deprecated = TRUE]
Malware1 ==
    [Object("malware", "malware--1", <<"d", "o", "g">>, <<"D", "o", "g">>,
            <<AttackRef(<<"S1">>)>>)
        EXCEPT !.x_mitre_aliases = <<<<"d", "o", "g">>>>]
Malware2 ==
    [Object("malware", "malware--2", <<"g", "o", "d">>, <<"g">>,
            <<AttackRef(<<"S2">>)>>)
        EXCEPT !.x_mitre_aliases = <<<<"g", "o", "d">>>>, !.revoked = TRUE]
Tool1 ==
    [Object("tool", "tool--1", <<"o", "d">>, <<"o">>,
            <<AttackRef(<<"S3">>)>>)
        EXCEPT !.x_mitre_aliases = <<<<"o", "d">>>>, !.x_mitre_deprecated = TRUE]
Tool2 ==
    [Object("tool", "tool--2", <<"d", "o">>, <<"d">>,
            <<AttackRef(<<"S4">>)>>)
        EXCEPT !.x_mitre_aliases = <<<<"d", "o">>>>, !.revoked = TRUE]
UsesActorMalware1 == Relationship("rel--1", "uses", "actor--1", "malware--1")
UsesActorMalware2 == Relationship("rel--2", "uses", "actor--1", "malware--2")
UsesTechniqueSub == Relationship("rel--3", "uses", "pattern--1", "pattern--2")
MitigatesTechnique == Relationship("rel--4", "mitigates", "coa--1", "pattern--1")

\* the records the entity loops are run on
Records ==
    {Tactic1, Technique1, Subtechnique1, Actor1, ActorNoRef, Actor2,
     Mitigation1, Malware1, Malware2, Tool1, Tool2}

\* the records the linker is run on
LinkRecords ==
    {Technique1, Subtechnique1, Actor1, Mitigation1, Malware1, Malware2,
     UsesActorMalware1, UsesActorMalware2, UsesTechniqueSub, MitigatesTechnique}

\* the records tactic containment is run on
Tactic2 ==
    Object("x-mitre-tactic", "tactic--2", <<"Pre", " ", "Impact">>, <<"d">>,
           <<AttackRef(<<"TA2">>)>>)
Technique2 ==
    [Object("attack-pattern", "pattern--3", <<"G", "o">>, <<"g">>,
            <<AttackRef(<<"T2">>)>>)
        EXCEPT !.kill_chain_phases =
                   <<[kill_chain_name |-> <<"mitre-", "attack">>,
                      phase_name |-> <<"pre", "-", "impact">>]>>]
Technique3 ==
    [Object("attack-pattern", "pattern--4", <<"o", "g">>, <<"o">>,
            <<AttackRef(<<"T3">>)>>)
        EXCEPT !.kill_chain_phases =
                   <<[kill_chain_name |-> <<"lockheed">>,
                      phase_name |-> <<"impact">>]>>]
TechniqueNoRef ==
    [Object("attack-pattern", "pattern--5", <<"d", "o">>, <<"d">>,
            <<CapecRef(<<"C5">>)>>)
        EXCEPT !.kill_chain_phases =
                   <<[kill_chain_name |-> <<"mitre-", "attack">>,
                      phase_name |-> <<"impact">>]>>]

TacticRecords ==
    {Tactic1, Tactic2, Technique1, Technique2, Technique3, TechniqueNoRef}

SeqsOf(S) == UNION {[1..n -> S] : n \in 1..MaxLen}

Options == [revoked : BOOLEAN, deprecated : BOOLEAN]

-----------------------------------------------------------------------------
(* Transform, one loop iteration at a time *)

NoQuery == [op |-> "none"]
NoResult == [t |-> "none"]
NothingLoaded == [t |-> "none"]
Matrices == {"Enterprise", "ICS"}
NoFile == [state |-> "absent"]

InitWith(bundles) ==
    /\ bundle \in bundles
    /\ options \in Options
    /\ pc = "Tactics"
    /\ idx = 1
    /\ matrix = InitMatrix
    /\ locals = InitLocals
    /\ cache = [m \in Matrices |-> NoFile]
    /\ query = NoQuery
    /\ result = NoResult
    /\ inmemory = NothingLoaded

\* the frame of the running Transform
Now == Frame(matrix, locals, FALSE)

\* the effect of one loop iteration that leaves Transform in frame st
Iterate(st) ==
    /\ matrix' = st.matrix
    /\ locals' = st.locals
    /\ pc' = IF st.raised THEN "raised" ELSE pc
    /\ idx' = IF st.raised THEN idx ELSE idx + 1
    /\ UNCHANGED <<bundle, options, cache, query, result, inmemory>>

TacticsLoop ==
    /\ pc = "Tactics"
    /\ idx <= Len(bundle)
    /\ Iterate(TacticsBody(Now, bundle[idx], options))

TechniquesLoop ==
    /\ pc = "Techniques"
    /\ idx <= Len(bundle)
    /\ Iterate(TechniquesBody(Now, bundle[idx], options))

SubtechniquesLoop ==
    /\ pc = "Subtechniques"
    /\ idx <= Len(bundle)
    /\ Iterate(SubtechniquesBody(Now, bundle[idx], options))

ActorsLoop ==
    /\ pc = "Actors"
    /\ idx <= Len(bundle)
    /\ Iterate(ActorsBody(Now, bundle[idx], options))

MalwaresLoop ==
    /\ pc = "Malwares"
    /\ idx <= Len(bundle)
    /\ Iterate(MalwaresBody(Now, bundle[idx], options))

MitigationsLoop ==
    /\ pc = "Mitigations"
    /\ idx <= Len(bundle)
    /\ Iterate(MitigationsBody(Now, bundle[idx], options))

ToolsLoop ==
    /\ pc = "Tools"
    /\ idx <= Len(bundle)
    /\ Iterate(ToolsBody(Now, bundle[idx], options))

LinkLoop ==
    /\ pc = "Link"
    /\ idx <= Len(bundle)
    /\ Iterate(LinkBody(Now, bundle[idx], bundle, options))

\* a loop ends: the next kind's dictionary is created, or the graph is returned
EndLoop ==
    /\ pc \in LoopNames
    /\ idx > Len(bundle)
    /\ pc' = AfterLoop(pc)
    /\ idx' = 1
    /\ matrix' = NewKind(matrix, AfterLoop(pc))
    /\ UNCHANGED <<bundle, options, locals, cache, query, result, inmemory>>

NextTransform ==
    \/ TacticsLoop
    \/ TechniquesLoop
    \/ SubtechniquesLoop
    \/ ActorsLoop
    \/ MalwaresLoop
    \/ MitigationsLoop
    \/ ToolsLoop
    \/ LinkLoop
    \/ EndLoop

InitTransform == InitWith(SeqsOf(Records))

SpecTransform == InitTransform /\ [][NextTransform]_vars

InitLink == InitWith(SeqsOf(LinkRecords))

SpecLink == InitLink /\ [][NextTransform]_vars

InitTactics == InitWith(SeqsOf(TacticRecords))

SpecTactics == InitTactics /\ [][NextTransform]_vars

\* the stepwise run ends where Transform(options, bundle) ends
StepwiseAgrees ==
    LET st == Transform(options, bundle)
    IN  /\ pc = "done" => ~st.raised /\ st.matrix = matrix
        /\ pc = "raised" => st.raised

-----------------------------------------------------------------------------
(* Cache files *)

\* "for matrixname in matrixcaches": the order of Matrices.keys()
MatrixOrder == <<"Enterprise", "ICS">>

\* the cache file main writes: pickle.dump of {options.matrix: graph}
GraphFile(g) == [state |-> "graph", graph |-> g]

\* loadCache(options, matrixname): the unpickled file, or None without a file
NoneValue == [t |-> "None"]

LoadCache(c, matrixname) ==
    IF matrixname \in DOMAIN c /\ c[matrixname].state = "graph"
    THEN [t |-> "dict", v |-> c[matrixname].graph]
    ELSE NoneValue

\* loadCaches(options): "{**matrices, **loadCache(..)}" is a TypeError on None
LoadCaches(c) ==
    IF \E i \in 1..Len(MatrixOrder) : LoadCache(c, MatrixOrder[i]).t = "None"
    THEN [raised |-> TRUE]
    ELSE [raised |-> FALSE,
          v |-> [m \in Matrices |-> LoadCache(c, m).v]]

-----------------------------------------------------------------------------
(* search *)

UnfoldFields == {"Actors", "Malwares", "Mitigations", "Subtechniques", "Techniques"}

\* unfoldField.rstrip('s').upper()
KindUpper(field) ==
    CASE field = "Actors" -> "ACTOR"
      [] field = "Malwares" -> "MALWARE"
      [] field = "Mitigations" -> "MITIGATION"
      [] field = "Subtechniques" -> "SUBTECHNIQUE"
      [] field = "Techniques" -> "TECHNIQUE"

Placeholder(field, key) ==
    [name |-> PyStr(key),
     description |->
        PyStr(<<"*** DEPRECATED OR REVOKED ", KindUpper(field), " ***">>)]

Summary(e) == [name |-> e.name, description |-> e.description]

\* the keys of a list, as the keys of the dictionary built from it
Elements(lst) == {lst[i] : i \in 1..Len(lst)}

\* unfoldKeys(options, cache, matrixname, entitytype, entity), cache[matrixname] = g
UnfoldKeysDropping(g, entitytype, entity) ==
    LET e == g[entitytype][entity]
        fields == {f \in UnfoldFields : f \in DOMAIN e /\ Len(e[f]) > 0}
    IN  [k \in {"name", "description"} \cup fields |->
            IF k \in fields
            THEN [key \in {x \in Elements(e[k]) : x \in DOMAIN g[k]} |->
                    Summary(g[k][key])]
            ELSE e[k]]

UnfoldKeys(g, entitytype, entity) ==
    LET e == g[entitytype][entity]
        fields == {f \in UnfoldFields : f \in DOMAIN e /\ Len(e[f]) > 0}
    IN  [k \in {"name", "description"} \cup fields |->
            IF k \in fields
            THEN [key \in Elements(e[k]) |->
                    IF key \in DOMAIN g[k] THEN Summary(g[k][key])
                    ELSE Placeholder(k, key)]
            ELSE e[k]]

\* the test of one field of an entity against one query: every item of a list
\* is lowered before the test, a scalar field is tested as it is stored
FieldMatches(field, q) ==
    IF field.t = "list"
    THEN \E i \in 1..Len(field.v) : Contains(Lower(field.v[i]), Lower(q))
    ELSE Contains(field.v, Lower(q))

EntityMatches(e, params) ==
    \E i \in 1..Len(params) :
        \E f \in {"name", "description"} : FieldMatches(e[f], params[i])

\* a dictionary without its empty entries
NonEmpty(d) == [k \in {x \in DOMAIN d : DOMAIN d[x] # {}} |-> d[k]]

\* searchMatrix(options, params, matrixname)
SearchMatrix(c, params, matrixname) ==
    LET loaded == LoadCache(c, matrixname)
    IN  IF matrixname = "" \/ loaded.t = "None" THEN <<>>
        ELSE LET g == loaded.v
                 kinds == IF params = <<>> THEN {} ELSE DOMAIN g
             IN  NonEmpty([entitytype \in kinds |->
                    [entity \in {x \in DOMAIN g[entitytype] :
                                    EntityMatches(g[entitytype][x], params)} |->
                        UnfoldKeys(g, entitytype, entity)]])

\* the matrices argument of search: a list of names or a single name
NameList(l) == [t |-> "list", v |-> l]
Name(n) == [t |-> "str", v |-> n]

\* "if matrices == ['ALL'] ... elif not isinstance(matrices, list)"
Selected(matrices) ==
    IF matrices.t = "list" /\ matrices.v = <<"ALL">> THEN Matrices
    ELSE IF matrices.t = "list" THEN Elements(matrices.v)
    ELSE {matrices.v}

\* search(options, params, matrices)
Search(c, params, matrices) ==
    NonEmpty([matrixname \in Selected(matrices) |->
                SearchMatrix(c, params, matrixname)])

-----------------------------------------------------------------------------
(* What a query returns *)

Raised == [t |-> "raised"]
Returned(v) == [t |-> "value", v |-> v]

-----------------------------------------------------------------------------
(* findTTPOverlap *)

\* the keys of overlapkeys, in the order candidatecontent is concatenated
TTPKeys == <<"Malwares", "Subtechniques", "Techniques", "Tools">>

\* "if entity.get(key)": the key is there and its list is not empty
ListOf(e, key) == IF key \in DOMAIN e THEN e[key] ELSE <<>>

RECURSIVE Concat(_)
Concat(lists) ==
    IF lists = <<>> THEN <<>> ELSE Head(lists) \o Concat(Tail(lists))

CandidateContent(e) ==
    Concat([i \in 1..Len(TTPKeys) |-> ListOf(e, TTPKeys[i])])

\* "(len(candidatecontent) > 0) and all(ttp in candidatecontent for ttp in TTPs)"
TTPMatchAny(e, TTPs) ==
    /\ Len(CandidateContent(e)) > 0
    /\ (TTPs = <<>> \/ \E i \in 1..Len(TTPs) : InList(TTPs[i], CandidateContent(e)))

TTPMatch(e, TTPs) ==
    /\ Len(CandidateContent(e)) > 0
    /\ \A i \in 1..Len(TTPs) : InList(TTPs[i], CandidateContent(e))

\* the loop over results[matrixname]['Actors']: every non-empty list under a
\* key of overlapkeys becomes a dictionary of the ids that resolve in g
UnfoldTTPs(g, e) ==
    [k \in DOMAIN e |->
        IF InList(k, TTPKeys)
        THEN IF Len(e[k]) > 0
             THEN [t |-> "dict",
                   v |-> [ttp \in {x \in Elements(e[k]) : x \in DOMAIN g[k]} |->
                            Summary(g[k][ttp])]]
             ELSE [t |-> "list", v |-> <<>>]
        ELSE e[k]]

\* findTTPOverlap(options, TTPs)
FindTTPOverlap(c, TTPs) ==
    LET loaded == LoadCaches(c)
    IN  IF loaded.raised THEN Raised
        ELSE LET matching(m) ==
                    {a \in DOMAIN loaded.v[m]["Actors"] :
                        TTPMatch(loaded.v[m]["Actors"][a], TTPs)}
             IN  Returned(
                    [m \in {x \in Matrices : matching(x) # {}} |->
                        [Actors |->
                            [a \in matching(m) |->
                                UnfoldTTPs(loaded.v[m],
                                           loaded.v[m]["Actors"][a])]]])

-----------------------------------------------------------------------------
(* findActorOverlap *)

OverlapKeys == {"Malwares", "Mitigations", "Subtechniques", "Techniques", "Tools"}

\* s.strip()
RECURSIVE Lstrip(_)
Lstrip(s) == IF s # <<>> /\ Head(s) = " " THEN Lstrip(Tail(s)) ELSE s

RECURSIVE Rstrip(_)
Rstrip(s) ==
    IF s # <<>> /\ s[Len(s)] = " " THEN Rstrip(SubSeq(s, 1, Len(s) - 1)) ELSE s

Strip(s) == Rstrip(Lstrip(s))

\* the matrices whose Actors hold mitreID.rstrip('/')
FoundIn(g, mitreID) ==
    {m \in Matrices : RstripSlash(mitreID) \in DOMAIN g[m]["Actors"]}

\* "cache[matrixname]['Actors'][mitreID]" after the test above: a KeyError when
\* the id as given is not the key that the stripped id found
LookupFails(g, mitreID) ==
    \E m \in FoundIn(g, mitreID) : mitreID \notin DOMAIN g[m]["Actors"]

\* actor1map[overlapkey]: the ids under the key in every matrix of the actor
ActorMap(g, mitreID, key) ==
    UNION {Elements(ListOf(g[m]["Actors"][mitreID], key)) : m \in FoundIn(g, mitreID)}

\* "for name in actor['name']": the items of a list, the characters of a str
NameItems(name) ==
    IF name.t = "list" THEN Elements(name.v)
    ELSE {<<name.v[i]>> : i \in 1..Len(name.v)}

\* the description built over the matrices in the order the set is iterated
RECURSIVE JoinDescriptions(_, _, _, _)
JoinDescriptions(g, mitreID, order, acc) ==
    IF order = <<>> THEN acc
    ELSE LET m == Head(order)
             d == IF m \in FoundIn(g, mitreID)
                  THEN g[m]["Actors"][mitreID].description.v ELSE <<>>
         IN  JoinDescriptions(g, mitreID, Tail(order),
                IF m \in FoundIn(g, mitreID) /\ ~Contains(acc, d)
                THEN acc \o Strip(d) \o <<" ">> ELSE acc)

ActorInfo(g, mitreID, order) ==
    [name |-> UNION {NameItems(g[m]["Actors"][mitreID].name) :
                        m \in FoundIn(g, mitreID)},
     description |-> Strip(JoinDescriptions(g, mitreID, order, <<>>))]

\* the last matrix of cache.keys() that holds key under kind
LastHolder(g, kind, key) ==
    LET holders == {i \in 1..Len(MatrixOrder) : key \in DOMAIN g[MatrixOrder[i]][kind]}
    IN  MatrixOrder[CHOOSE i \in holders : \A j \in holders : j <= i]

Overlapping(g, mitreID1, mitreID2, key) ==
    ActorMap(g, mitreID1, key) \cap ActorMap(g, mitreID2, key)

\* findActorOverlap(options, mitreID1, mitreID2); order is the iteration order
\* of the set overlap['Matrices']['name']
FindActorOverlap(c, mitreID1, mitreID2, order) ==
    LET loaded == LoadCaches(c)
    IN  IF loaded.raised THEN Raised
        ELSE LET g == loaded.v
             IN  IF LookupFails(g, mitreID1) \/ LookupFails(g, mitreID2) THEN Raised
                 ELSE LET kinds == {k \in OverlapKeys :
                                      Overlapping(g, mitreID1, mitreID2, k) # {}}
                          found == FoundIn(g, mitreID1) \cup FoundIn(g, mitreID2)
                      IN  IF kinds = {} THEN NoneValue
                          ELSE Returned(
                            [k \in {"Actors", "Matrices"} \cup kinds |->
                                CASE k = "Actors" ->
                                        [a \in {mitreID1, mitreID2} |->
                                            ActorInfo(g, a, order)]
                                  [] k = "Matrices" ->
                                        [name |-> found,
                                         description |->
                                            "List of ATT&CK matrices in which the actors have been found"]
                                  [] OTHER ->
                                        [key \in {x \in Overlapping(g, mitreID1, mitreID2, k) :
                                                    \E m \in Matrices : x \in DOMAIN g[m][k]} |->
                                            Summary(g[LastHolder(g, k, key)][k][key])]])

-----------------------------------------------------------------------------
(* explore *)

\* dpath.util.get(cache, treepath, separator='/') for a path without
\* wildcards, given as its segments: the value under the keys, KeyError when a
\* key is missing
PathFound(tree, path) ==
    /\ path[1] \in DOMAIN tree
    /\ Len(path) >= 2 => path[2] \in DOMAIN tree[path[1]]
    /\ Len(path) >= 3 => path[3] \in DOMAIN tree[path[1]][path[2]]

PathValue(tree, path) ==
    CASE Len(path) = 1 -> tree[path[1]]
      [] Len(path) = 2 -> tree[path[1]][path[2]]
      [] OTHER -> tree[path[1]][path[2]][path[3]]

\* query(request, token): the handler of /api/explore/{treepath:path}; the
\* except clause names KeyError only
Explore(c, treepath) ==
    IF treepath = <<>> THEN Returned(Matrices)
    ELSE LET loaded == LoadCaches(c)
         IN  IF loaded.raised THEN Raised
             ELSE IF PathFound(loaded.v, treepath)
                  THEN Returned(PathValue(loaded.v, treepath))
                  ELSE NoneValue

-----------------------------------------------------------------------------
(* The unpickled graphs a query holds *)

RelationKeys ==
    {"Actors", "Malwares", "Mitigations", "Subtechniques", "Techniques", "Tools"}

\* an unpickled graph: every value of an entity with its Python type
Unpickled(g) ==
    [kind \in DOMAIN g |->
        [x \in DOMAIN g[kind] |->
            [k \in DOMAIN g[kind][x] |->
                IF k \in RelationKeys THEN PyList(g[kind][x][k])
                ELSE IF k = "subtechnique_of" THEN PyStr(g[kind][x][k])
                ELSE g[kind][x][k]]]]

Holding(gs) == [t |-> "graphs", v |-> gs]

\* search: loadCache once for each selected matrix, in searchMatrix; nothing
\* that is loaded is assigned to
LoadedBySearch(c, matrices) ==
    Holding([m \in {x \in Selected(matrices) : LoadCache(c, x).t = "dict"} |->
                Unpickled(LoadCache(c, m).v)])

\* findActorOverlap: loadCaches; actor1, actor2 and overlap are new objects
LoadedByActorOverlap(c) ==
    IF LoadCaches(c).raised THEN NothingLoaded
    ELSE Holding([m \in Matrices |-> Unpickled(LoadCaches(c).v[m])])

\* explore: loadCaches, unless the path is empty
LoadedByExplore(c, treepath) ==
    IF treepath = <<>> THEN NothingLoaded ELSE LoadedByActorOverlap(c)

\* findTTPOverlap: results[matrixname]['Actors'][candidate] is the entity of
\* the unpickled graph itself, so the del and the assignment of the unfolding
\* loop change that entity
LoadedByTTPOverlap(c, TTPs) ==
    IF LoadCaches(c).raised THEN NothingLoaded
    ELSE Holding(
            [m \in Matrices |->
                LET g == LoadCaches(c).v[m]
                IN  [Unpickled(g) EXCEPT !["Actors"] =
                        [a \in DOMAIN g["Actors"] |->
                            IF TTPMatch(g["Actors"][a], TTPs)
                            THEN UnfoldTTPs(g, g["Actors"][a])
                            ELSE @[a]]]])

-----------------------------------------------------------------------------
(* The cache directory and the queries served from it *)

MaxTerms == 2

UsesActor2Malware1 == Relationship("rel--5", "uses", "actor--3", "malware--1")
UsesActor2Malware2 == Relationship("rel--6", "uses", "actor--3", "malware--2")
UsesActorTechnique == Relationship("rel--7", "uses", "actor--1", "pattern--1")

\* the entity records of every downloaded bundle, followed by its relationships
BundleEntities == <<Technique1, Actor1, Actor2, Malware1, Malware2>>

\* options.revoked and options.deprecated as set in config/settings.py, and a
\* deployment that turns options.revoked off
Settings == [revoked |-> TRUE, deprecated |-> TRUE]
NoRevoked == [Settings EXCEPT !.revoked = FALSE]

Downloaded(links, opts) == [bundle |-> BundleEntities \o links, options |-> opts]

GenerateInputs ==
    {Downloaded(<<UsesActorMalware1>>, Settings),
     Downloaded(<<UsesActor2Malware1, UsesActorTechnique>>, Settings),
     Downloaded(<<UsesActorMalware1, UsesActor2Malware1>>, Settings),
     Downloaded(<<UsesActorMalware2, UsesActor2Malware2>>, Settings),
     Downloaded(<<UsesActorMalware2, UsesActor2Malware2>>, NoRevoked),
     Downloaded(<<UsesActorMalware1, UsesActor2Malware1,
                  UsesActorMalware2, UsesActor2Malware2>>, NoRevoked)}

\* what GenerateMatrix returns for each of them
Generated == {Transform(in.options, in.bundle) : in \in GenerateInputs}

SeqsUpTo(S, n) == UNION {[1..k -> S] : k \in 0..n}

Terms == {<<"D", "o">>, <<"g">>}
SearchParams == SeqsUpTo(Terms, MaxTerms)
MatrixArgs ==
    {NameList(<<"ALL">>), NameList(<<"Enterprise">>), Name("ICS"), Name("ALL")}
ActorIds == {<<"G1">>, <<"G2">>, <<"G1", "/">>, <<"G9">>}
TTPIds == {<<"S1">>, <<"S2">>, <<"T1">>}
TTPLists == SeqsUpTo(TTPIds, MaxTerms)
MatrixOrders == {<<"Enterprise", "ICS">>, <<"ICS", "Enterprise">>}
TreePaths ==
    {<<>>, <<"Enterprise">>, <<"ICS", "Actors">>,
     <<"Enterprise", "Actors", <<"G1">>>>, <<"Mobile">>}

Init ==
    /\ bundle = <<>>
    /\ options = Settings
    /\ pc = "done"
    /\ idx = 1
    /\ matrix = InitMatrix
    /\ locals = InitLocals
    /\ cache = [m \in Matrices |-> NoFile]
    /\ query = NoQuery
    /\ result = NoResult
    /\ inmemory = NothingLoaded

\* what lands in the json file of a matrix: a bundle that json.load decodes,
\* text that is no JSON (JSONDecodeError, which GenerateMatrix logs before it
\* returns nothing), or bytes in no encoding of JSON (UnicodeDecodeError, which
\* nothing catches)
Downloads ==
    {[kind |-> "bundle", frame |-> st] : st \in Generated}
        \cup {[kind |-> "malformed"], [kind |-> "undecodable"]}

\* the cache file after pickle.dump(None, cache)
NoneFile == [state |-> "none"]

\* main without --daemonize: the cache file of options.matrix is written when
\* it does not exist or --force is given.  query and result hold the request
\* answered last from the cache directory as it is; a run of main takes their
\* place
Generate ==
    \E m \in Matrices, force \in BOOLEAN, d \in Downloads :
        /\ cache[m] = NoFile \/ force
        /\ cache' = CASE d.kind = "malformed" -> [cache EXCEPT ![m] = NoneFile]
                      [] d.kind = "undecodable" -> cache
                      [] OTHER ->
                            IF d.frame.raised THEN cache
                            ELSE [cache EXCEPT ![m] = GraphFile(d.frame.matrix)]
        /\ query' = [op |-> "generate", matrix |-> m, bundle |-> d.kind]
        /\ result' = NoResult
        /\ inmemory' = NothingLoaded
        /\ UNCHANGED <<bundle, options, pc, idx, matrix, locals>>

\* GET /api/search/: matrix is never empty here, so search is always called;
\* the scalar selectors are those of a call of search itself, whose default
\* is matrices='ALL'
SearchParam ==
    \E params \in SearchParams, matrices \in MatrixArgs :
        /\ query' = [op |-> "search", params |-> params, matrices |-> matrices]
        /\ result' = Returned(Search(cache, params, matrices))
        /\ inmemory' = LoadedBySearch(cache, matrices)
        /\ UNCHANGED <<bundle, options, pc, idx, matrix, locals, cache>>

\* GET /api/actoroverlap/
ActorOverlap ==
    \E actor1 \in ActorIds, actor2 \in ActorIds, order \in MatrixOrders :
        /\ query' = [op |-> "actoroverlap", actor1 |-> actor1, actor2 |-> actor2]
        /\ result' = FindActorOverlap(cache, actor1, actor2, order)
        /\ inmemory' = LoadedByActorOverlap(cache)
        /\ UNCHANGED <<bundle, options, pc, idx, matrix, locals, cache>>

\* GET /api/ttpoverlap/
TTPOverlap ==
    \E ttp \in TTPLists :
        /\ query' = [op |-> "ttpoverlap", ttp |-> ttp]
        /\ result' = FindTTPOverlap(cache, ttp)
        /\ inmemory' = LoadedByTTPOverlap(cache, ttp)
        /\ UNCHANGED <<bundle, options, pc, idx, matrix, locals, cache>>

\* GET /api/explore/{treepath:path}
ExplorePath ==
    \E treepath \in TreePaths :
        /\ query' = [op |-> "explore", treepath |-> treepath]
        /\ result' = Explore(cache, treepath)
        /\ inmemory' = LoadedByExplore(cache, treepath)
        /\ UNCHANGED <<bundle, options, pc, idx, matrix, locals, cache>>

Next == Generate \/ SearchParam \/ ActorOverlap \/ TTPOverlap \/ ExplorePath

Spec == Init /\ [][Next]_vars

-----------------------------------------------------------------------------
(* A rebuild of a cache file while it is being loaded *)

\* the cache file between open(cachefile, 'wb'), which truncates it, and the
\* end of pickle.dump
PartialFile(previous, g) ==
    [state |-> "partial", previous |-> previous, graph |-> g]

\* loadCache on the file as it is on disk: pickle.load of a truncated file
\* raises EOFError or UnpicklingError, which the except clause does not name
LoadCacheFile(c, matrixname) ==
    IF c[matrixname].state = "partial" THEN Raised ELSE LoadCache(c, matrixname)

\* main: GenerateMatrix has returned the graph, the cache file is opened
OpenCacheFile ==
    \E m \in Matrices, force \in BOOLEAN, st \in Generated :
        /\ cache[m].state # "partial"
        /\ cache[m].state = "absent" \/ force
        /\ ~st.raised
        /\ cache' = [cache EXCEPT ![m] = PartialFile(cache[m], st.matrix)]
        /\ query' = NoQuery
        /\ result' = NoResult
        /\ UNCHANGED <<bundle, options, pc, idx, matrix, locals, inmemory>>

\* main: pickle.dump has written the graph and the file is closed
DumpCacheFile ==
    \E m \in Matrices :
        /\ cache[m].state = "partial"
        /\ cache' = [cache EXCEPT ![m] = GraphFile(cache[m].graph)]
        /\ UNCHANGED <<bundle, options, pc, idx, matrix, locals, query, result,
                       inmemory>>

\* a query of the running service loads the cache file of a matrix
LoadDuringRebuild ==
    \E m \in Matrices :
        /\ query' = [op |-> "load", matrix |-> m]
        /\ result' = LoadCacheFile(cache, m)
        /\ UNCHANGED <<bundle, options, pc, idx, matrix, locals, cache, inmemory>>

NextRebuild == OpenCacheFile \/ DumpCacheFile \/ LoadDuringRebuild

SpecRebuild == Init /\ [][NextRebuild]_vars

-----------------------------------------------------------------------------
(* What the properties below read off a bundle record *)

\* the kind of entity a record describes
KindOf(r) ==
    CASE r.type = "x-mitre-tactic" -> "Tactics"
      [] r.type = "attack-pattern" ->
            IF r.x_mitre_is_subtechnique THEN "Subtechniques" ELSE "Techniques"
      [] r.type = "intrusion-set" -> "Actors"
      [] r.type = "malware" -> "Malwares"
      [] r.type = "course-of-action" -> "Mitigations"
      [] r.type = "tool" -> "Tools"
      [] OTHER -> "none"

\* the filter policy: revoked and not includeRevoked, or deprecated and not
\* includeDeprecated
Excluded(r, opts) ==
    \/ (r.revoked /\ ~opts.revoked)
    \/ (r.x_mitre_deprecated /\ ~opts.deprecated)

\* the external ids a record carries in the ATT&CK namespace
AttackIds(r) ==
    {r.external_references[i].external_id :
        i \in {j \in 1..Len(r.external_references) :
                /\ r.external_references[j].external_id # <<>>
                /\ Contains(r.external_references[j].source_name, <<"attack">>)}}

\* entity e holds the name and the description of record r
Carries(e, r) ==
    /\ IF e.name.t = "list"
       THEN e.name.v \in {r.aliases, r.x_mitre_aliases}
       ELSE e.name.v = r.name
    /\ e.description.v \in {r.description, <<"Not available.">>}

\* some entity of r's kind was built from r
StoredAs(r) ==
    /\ KindOf(r) \in DOMAIN matrix
    /\ \E x \in DOMAIN matrix[KindOf(r)] : Carries(matrix[KindOf(r)][x], r)

StoredUnderOwnId(r) ==
    \A x \in AttackIds(r) : x \in DOMAIN matrix[KindOf(r)]

EntityLoops == LoopNames \ {"Link"}

FilteredKinds == {"Tactics", "Techniques", "Subtechniques", "Actors", "Mitigations"}

\* loop p builds an entity from record r
HandledBy(p, r, opts) ==
    /\ KindOf(r) = p
    /\ ~Excluded(r, opts)
    /\ p \in {"Malwares", "Tools"} => ~r.revoked

\* a 'mitigates' or 'uses' relationship record
IsLink(r) ==
    /\ r.type = "relationship"
    /\ r.relationship_type \in {"mitigates", "uses"}

\* the positions of the records a reference names
Referenced(ref) == {i \in 1..Len(bundle) : bundle[i].id = ref}

Linkable == {"attack-pattern", "intrusion-set", "malware", "course-of-action", "tool"}

\* the kind the linker files record r with external id x under
LinkKind(r, x) ==
    IF InList(".", x) THEN "Subtechniques"
    ELSE CASE r.type = "attack-pattern" -> "Techniques"
           [] r.type = "intrusion-set" -> "Actors"
           [] r.type = "malware" -> "Malwares"
           [] r.type = "course-of-action" -> "Mitigations"
           [] r.type = "tool" -> "Tools"
           [] OTHER -> "none"

\* graph m has entity x of kind k, and that entity has a relation list for kk
HasList(m, k, x, kk) ==
    /\ k \in DOMAIN m
    /\ x \in DOMAIN m[k]
    /\ kk \in DOMAIN m[k][x]

\* y is in the relation list for kind kk of entity x of kind k
InRelation(m, k, x, kk, y) ==
    /\ HasList(m, k, x, kk)
    /\ InList(y, m[k][x][kk])

\* the source or the target record of relationship r is excluded by the policy
EndpointExcluded(r) ==
    \E i \in Referenced(r.source_ref) \cup Referenced(r.target_ref) :
        /\ bundle[i].type \in Linkable
        /\ Excluded(bundle[i], options)

\* the linker is about to process a relationship with an excluded endpoint
AtExcludedLink ==
    /\ pc = "Link"
    /\ idx <= Len(bundle)
    /\ IsLink(bundle[idx])
    /\ EndpointExcluded(bundle[idx])

-----------------------------------------------------------------------------
(* Properties of Transform *)

\* C3: an eligible entity record without an ATT&CK external id is dropped: the
\* iteration that meets it leaves the graph as it was (nothing created, nothing
\* overwritten under an earlier record's id) and does not raise.
C3_NoIdRecordDropped ==
    [][(/\ pc \in EntityLoops
        /\ idx <= Len(bundle)
        /\ HandledBy(pc, bundle[idx], options)
        /\ AttackIds(bundle[idx]) = {})
       => (matrix' = matrix /\ pc' # "raised")]_vars

\* C4: in the graph Transform returns, a tactic, technique, subtechnique, actor
\* or mitigation record has an entity exactly if the filter policy does not
\* exclude it: an eligible record's id is a key of its kind, and no entity holds
\* the name and description of an excluded record.
C4_StoredIffEligible ==
    pc = "done" =>
        \A i \in 1..Len(bundle) :
            KindOf(bundle[i]) \in FilteredKinds =>
                IF Excluded(bundle[i], options)
                THEN ~StoredAs(bundle[i])
                ELSE StoredUnderOwnId(bundle[i])

C4_Witness ==
    /\ pc = "done"
    /\ \E i, j \in 1..Len(bundle) :
        /\ KindOf(bundle[i]) \in FilteredKinds
        /\ Excluded(bundle[i], options)
        /\ AttackIds(bundle[i]) # {}
        /\ KindOf(bundle[j]) \in FilteredKinds
        /\ ~Excluded(bundle[j], options)
        /\ AttackIds(bundle[j]) # {}
        /\ StoredAs(bundle[j])

-----------------------------------------------------------------------------
(* Properties of the linker *)

\* C1: in the returned graph, for every two entities s and t that a 'mitigates'
\* or 'uses' relationship connects, t's id is in s's relation list for t's kind
\* exactly if s's id is in t's relation list for s's kind.
C1_LinksSymmetric ==
    pc = "done" =>
        \A l \in 1..Len(bundle) :
            IsLink(bundle[l]) =>
                \A i \in Referenced(bundle[l].source_ref),
                   j \in Referenced(bundle[l].target_ref) :
                    \A a \in AttackIds(bundle[i]), b \in AttackIds(bundle[j]) :
                        LET ks == KindOf(bundle[i])
                            kt == KindOf(bundle[j])
                        IN  (/\ ks \in DOMAIN matrix
                             /\ kt \in DOMAIN matrix
                             /\ a \in DOMAIN matrix[ks]
                             /\ b \in DOMAIN matrix[kt])
                            => (InRelation(matrix, ks, a, kt, b)
                                <=> InRelation(matrix, kt, b, ks, a))

-----------------------------------------------------------------------------
(* What the properties below read off the cache directory and a response *)

Loaded == \A m \in Matrices : cache[m].state = "graph"

Graph(m) == cache[m].graph

InResult(m, kind, entity) ==
    /\ m \in DOMAIN result.v
    /\ kind \in DOMAIN result.v[m]
    /\ entity \in DOMAIN result.v[m][kind]

\* a term is a case-insensitive substring of a field: of an element of a list,
\* or of the scalar
TermInField(field, term) ==
    IF field.t = "list"
    THEN \E i \in 1..Len(field.v) : Contains(Lower(field.v[i]), Lower(term))
    ELSE Contains(Lower(field.v), Lower(term))

TermMatches(e, terms) ==
    \E i \in 1..Len(terms) :
        TermInField(e.name, terms[i]) \/ TermInField(e.description, terms[i])

\* the ids an actor entity holds under the four TTP kinds
HeldTTPs(e) ==
    ListOf(e, "Malwares") \o ListOf(e, "Subtechniques")
        \o ListOf(e, "Techniques") \o ListOf(e, "Tools")

Emitted(m, a) == m \in DOMAIN result.v /\ a \in DOMAIN result.v[m]["Actors"]

\* the union over all matrices of an actor's ids of one kind
UnionIds(id, kind) ==
    UNION {Elements(ListOf(Graph(m)["Actors"][id], kind)) :
            m \in {x \in Matrices : id \in DOMAIN Graph(x)["Actors"]}}

SharedIds(kind) ==
    UnionIds(query.actor1, kind) \cap UnionIds(query.actor2, kind)

Reported(kind) ==
    IF result.t = "value" /\ kind \in DOMAIN result.v
    THEN DOMAIN result.v[kind] ELSE {}

\* the description of the placeholder, as the documentation words it and as
\* it is with its markers
PlaceholderText(field, marked) ==
    IF marked
    THEN <<"*** DEPRECATED OR REVOKED ", KindUpper(field), " ***">>
    ELSE <<"DEPRECATED OR REVOKED ", KindUpper(field)>>

ShownAs(out, g, field, id, marked) ==
    /\ field \in DOMAIN out
    /\ id \in DOMAIN out[field]
    /\ out[field][id] =
          IF id \in DOMAIN g[field] THEN Summary(g[field][id])
          ELSE [name |-> PyStr(id),
                description |-> PyStr(PlaceholderText(field, marked))]

EveryRelationShown(marked) ==
    query.op = "search" =>
        \A m \in DOMAIN result.v :
            \A kind \in DOMAIN result.v[m] :
                \A entity \in DOMAIN result.v[m][kind] :
                    LET e == Graph(m)[kind][entity]
                    IN  \A field \in UnfoldFields \cap DOMAIN e :
                            \A id \in Elements(e[field]) :
                                ShownAs(result.v[m][kind][entity], Graph(m),
                                        field, id, marked)

-----------------------------------------------------------------------------
(* C6: search returns an entity of a selected matrix if and only if at least
   one term is a case-insensitive substring of its name or its description
   (of an element, for a list-valued field); the case of the stored field and
   of the term are both irrelevant. *)
C6_SearchCaseInsensitive ==
    query.op = "search" =>
        /\ DOMAIN result.v \subseteq Selected(query.matrices)
        /\ \A m \in Selected(query.matrices) \cap Matrices :
              cache[m].state = "graph" =>
                \A kind \in DOMAIN Graph(m) :
                    \A entity \in DOMAIN Graph(m)[kind] :
                        InResult(m, kind, entity)
                            <=> TermMatches(Graph(m)[kind][entity], query.params)

-----------------------------------------------------------------------------
(* C7: with every cache loaded, ttpOverlap(ttpIds) emits an actor under a
   matrix if and only if the concatenation of its Malwares, Subtechniques,
   Techniques and Tools lists is non-empty and contains every id of ttpIds;
   a matrix with no matching actor is absent from the result. *)
C7_TTPOverlapMatch ==
    query.op = "ttpoverlap" /\ Loaded =>
        /\ result.t = "value"
        /\ DOMAIN result.v \subseteq Matrices
        /\ \A m \in Matrices :
              /\ \A a \in DOMAIN Graph(m)["Actors"] :
                    Emitted(m, a) <=>
                        /\ HeldTTPs(Graph(m)["Actors"][a]) # <<>>
                        /\ \A i \in 1..Len(query.ttp) :
                              InList(query.ttp[i], HeldTTPs(Graph(m)["Actors"][a]))
              /\ m \in DOMAIN result.v => DOMAIN result.v[m]["Actors"] # {}

\* a query for some ids that emits one actor of a matrix, leaves another actor
\* of that matrix out, and leaves a whole matrix out
C7_Witness ==
    /\ query.op = "ttpoverlap" /\ Loaded /\ result.t = "value"
    /\ query.ttp # <<>>
    /\ \E m \in DOMAIN result.v :
          \E a \in DOMAIN Graph(m)["Actors"] : ~Emitted(m, a)
    /\ \E m \in Matrices : m \notin DOMAIN result.v

-----------------------------------------------------------------------------
(* C8: for actorOverlap(id1, id2) and each kind, the set of ids reported for
   the kind equals the intersection of the union over all matrices of actor1's
   ids of the kind with the union over all matrices of actor2's ids of it. *)
C8_OverlapIsIntersection ==
    query.op = "actoroverlap" /\ Loaded /\ result.t # "raised" =>
        \A kind \in OverlapKeys : Reported(kind) = SharedIds(kind)

-----------------------------------------------------------------------------
(* C9: with every cache loaded, actorOverlap(id1, id2) returns the absent
   result whenever the intersection is empty for every kind, including when
   id1 or id2 is not an actor in any matrix, and a value only when some kind
   has a non-empty intersection. *)
C9_AbsentWhenNoOverlap ==
    query.op = "actoroverlap" /\ Loaded =>
        IF \A kind \in OverlapKeys : SharedIds(kind) = {}
        THEN result.t = "None"
        ELSE result.t = "value"

-----------------------------------------------------------------------------
(* C10 as stated: every id in a matched entity's relation list for a kind in
   {Actors, Malwares, Mitigations, Subtechniques, Techniques} is in the
   unfolded output, with the referenced entity's name and description when it
   resolves in the same matrix and otherwise with the placeholder whose name
   is the id and whose description is "DEPRECATED OR REVOKED <KIND>". *)
C10_PlaceholderAsWorded == EveryRelationShown(FALSE)

(* C10, amended: the same, and the description of the placeholder is
   "*** DEPRECATED OR REVOKED <KIND> ***", with the markers around it. *)
C10_EveryRelationShown == EveryRelationShown(TRUE)

\* a matched entity with one relation id that resolves and one that does not
C10_Witness ==
    /\ query.op = "search"
    /\ \E m \in DOMAIN result.v :
          \E kind \in DOMAIN result.v[m] :
              \E entity \in DOMAIN result.v[m][kind] :
                  \E field \in UnfoldFields \cap DOMAIN Graph(m)[kind][entity] :
                      /\ \E id \in Elements(Graph(m)[kind][entity][field]) :
                            id \in DOMAIN Graph(m)[field]
                      /\ \E id \in Elements(Graph(m)[kind][entity][field]) :
                            id \notin DOMAIN Graph(m)[field]

-----------------------------------------------------------------------------
(* C11: for every actor ttpOverlap emits, the unfolded relations are what
   unfoldKeys produces for the same actor in the same matrix: a relation kind
   is unfolded by the one exactly if it is by the other, and with the same
   entries, so an id that does not resolve in the matrix is there as the
   deprecated/revoked placeholder. *)
C11_TTPOverlapUnfoldsAsSearch ==
    query.op = "ttpoverlap" /\ result.t = "value" =>
        \A m \in DOMAIN result.v :
            \A a \in DOMAIN result.v[m]["Actors"] :
                LET out == result.v[m]["Actors"][a]
                    unfolded == UnfoldKeys(Graph(m), "Actors", a)
                IN  \A field \in UnfoldFields \cap DOMAIN out :
                        /\ out[field].t = "dict" <=> field \in DOMAIN unfolded
                        /\ field \in DOMAIN unfolded =>
                                out[field].v = unfolded[field]

-----------------------------------------------------------------------------
(* C12: no query changes the graphs it reads: when a query returns, every
   entity of every graph it unpickled has the name, the description and the
   relation id lists that the cache file holds. *)
C12_QueriesLeaveGraphs ==
    inmemory.t = "graphs" =>
        \A m \in DOMAIN inmemory.v : inmemory.v[m] = Unpickled(Graph(m))

-----------------------------------------------------------------------------
(* Properties of a rebuild *)

\* what a load of a complete cache file gives
Complete(file) ==
    IF file.state = "graph" THEN [t |-> "dict", v |-> file.graph] ELSE NoneValue

(* C13: a load that runs while the cache file of its matrix is rebuilt
   observes the complete previous graph (or its absence) or the complete new
   graph, never a partially written file. *)
C13_LoadSeesCompleteGraph ==
    (query.op = "load" /\ cache[query.matrix].state = "partial") =>
        \/ result.t = "dict" /\ result = Complete(cache[query.matrix].previous)
        \/ result.t = "dict" /\ result.v = cache[query.matrix].graph
        \/ result.t = "None" /\ cache[query.matrix].previous.state = "absent"

-----------------------------------------------------------------------------
(* C14: a run of main whose downloaded bundle is malformed or undecodable
   installs nothing: the cache file of the matrix is left as it was, neither
   created nor overwritten with an empty or null graph. *)
C14_MalformedInstallsNothing ==
    [][(query'.op = "generate" /\ query'.bundle \in {"malformed", "undecodable"})
        => cache' = cache]_vars

-----------------------------------------------------------------------------
(* C15: where some known matrix has no cache entry, or a null one, explore,
   actorOverlap, ttpOverlap and search return a result computed from the
   matrices that are there; none of them ends in an error. *)
C15_AbsentCacheIsNoError ==
    (~Loaded /\ query.op \in {"explore", "search", "actoroverlap", "ttpoverlap"})
        => result.t # "raised"

-----------------------------------------------------------------------------
(* C16: in every graph Transform returns, the name of every Actor, Malware
   and Tool entity is a list of strings and the name of every Tactic,
   Technique, Subtechnique and Mitigation entity is a single string. *)
C16_NameTypes ==
    pc = "done" =>
        \A kind \in DOMAIN matrix :
            \A x \in DOMAIN matrix[kind] :
                matrix[kind][x].name.t =
                    IF kind \in {"Actors", "Malwares", "Tools"}
                    THEN "list" ELSE "str"

-----------------------------------------------------------------------------
(* C17: search with the selector "ALL", as the scalar or as the one-element
   list, searches every known matrix: its result is that of search with the
   list of all known matrix names. *)
C17_AllSelectsEveryMatrix ==
    (/\ query.op = "search"
     /\ \/ query.matrices.t = "str" /\ query.matrices.v = "ALL"
        \/ query.matrices.t = "list" /\ query.matrices.v = <<"ALL">>)
        => result = Returned(Search(cache, query.params, NameList(MatrixOrder)))

-----------------------------------------------------------------------------
(* C18: in every graph Transform returns, the part of a Subtechnique entity's
   id before the first '.' is the id of a Technique entity and the
   subtechnique's id is in that technique's Subtechniques list; and the
   iteration that meets an eligible subtechnique record does not fail, also
   when the parent technique is not in the graph. *)
C18_SubtechniqueUnderParent ==
    /\ [](pc = "done" =>
            \A x \in DOMAIN matrix["Subtechniques"] :
                /\ SplitDotHead(x) \in DOMAIN matrix["Techniques"]
                /\ InList(x, matrix["Techniques"][SplitDotHead(x)]["Subtechniques"]))
    /\ [][(/\ pc = "Subtechniques"
           /\ idx <= Len(bundle)
           /\ HandledBy("Subtechniques", bundle[idx], options)
           /\ AttackIds(bundle[idx]) # {})
          => pc' # "raised"]_vars

-----------------------------------------------------------------------------
(* Properties of tactic containment *)

\* the phases of record r in an ATT&CK kill chain
AttackPhases(r) ==
    {r.kill_chain_phases[i].phase_name :
        i \in {j \in 1..Len(r.kill_chain_phases) :
                /\ Contains(r.kill_chain_phases[j].kill_chain_name, <<"attack">>)
                /\ r.kill_chain_phases[j].phase_name # <<>>}}

\* an eligible technique record of the bundle
TechniqueRecords ==
    {i \in 1..Len(bundle) : HandledBy("Techniques", bundle[i], options)}

\* the ids of the bundle's records and of the tactics' lists
TechniqueIds ==
    UNION {AttackIds(bundle[i]) : i \in 1..Len(bundle)}
        \cup UNION {{matrix["Tactics"][t].Techniques[k] :
                        k \in 1..Len(matrix["Tactics"][t].Techniques)} :
                    t \in DOMAIN matrix["Tactics"]}

\* C19: after Transform, a technique's id is in a tactic's Techniques list
\* exactly if the technique is eligible and the tactic's name is a
\* case-insensitive substring of the phase name of one of the technique's
\* ATT&CK kill-chain phases, wherever the tactic records sit in the bundle.
C19_TacticHoldsMatchingTechniques ==
    pc = "done" =>
        \A t \in DOMAIN matrix["Tactics"], x \in TechniqueIds :
            InList(x, matrix["Tactics"][t].Techniques)
                <=> \E i \in TechniqueRecords :
                        /\ x \in AttackIds(bundle[i])
                        /\ \E phase \in AttackPhases(bundle[i]) :
                               Contains(Lower(phase),
                                        Lower(matrix["Tactics"][t].name.v))

-----------------------------------------------------------------------------
(* Properties of the relation lists *)

\* no element of lst occurs in it twice
NoRepeat(lst) ==
    \A i, j \in 1..Len(lst) : lst[i] = lst[j] => i = j

\* C20: after Transform of any bundle, also one that repeats a record or a
\* relationship, no relation list of any entity holds the same id twice: the
\* containment lists (a tactic's Techniques, a technique's Subtechniques) and
\* the lists the linker fills.
C20_NoRepeatedIds ==
    pc = "done" =>
        \A k \in DOMAIN matrix :
            \A x \in DOMAIN matrix[k] :
                \A kk \in RelationKeys \cap DOMAIN matrix[k][x] :
                    NoRepeat(matrix[k][x][kk])

-----------------------------------------------------------------------------
(* Properties of the linker's kinds *)

\* the records the linker's kinds are run on, after a technique and an actor
UsesTacticTechnique == Relationship("rel--8", "uses", "tactic--1", "pattern--1")
UntypedActorTechnique == Relationship("rel--9", "", "actor--1", "pattern--1")

KindRecords ==
    {Tactic1, UsesActorTechnique, UsesTacticTechnique, UntypedActorTechnique}

InitKinds == InitWith({<<Technique1, Actor1>> \o b : b \in SeqsOf(KindRecords)})

SpecKinds == InitKinds /\ [][NextTransform]_vars

\* id y comes from a record of the bundle whose type maps to kind kk
ResolvedAs(y, kk) ==
    \E i \in 1..Len(bundle) :
        /\ y \in AttackIds(bundle[i])
        /\ LinkKind(bundle[i], y) = kk

\* relationship r names a record whose type maps to no kind
EndpointOfOtherType(r) ==
    \E i \in Referenced(r.source_ref) \cup Referenced(r.target_ref) :
        bundle[i].type \notin Linkable

\* the linker is at a relationship that has no relationship_type, or that has
\* an endpoint record of a type that maps to no kind
AtStrayLink ==
    /\ pc = "Link"
    /\ idx <= Len(bundle)
    /\ bundle[idx].type = "relationship"
    /\ \/ bundle[idx].relationship_type = ""
       \/ EndpointOfOtherType(bundle[idx])

\* C21: after linking, every id in an entity's relation list for kind K comes
\* from a bundle record whose type maps to K; the iteration on a relationship
\* without relationship_type, or with an endpoint record of any other type,
\* inserts nothing under a kind or a relationship type left by an earlier
\* relationship.
C21_ListsHoldTheirKind ==
    /\ [](pc = "done" =>
            \A k \in DOMAIN matrix :
                \A x \in DOMAIN matrix[k] :
                    \A kk \in RelationKeys \cap DOMAIN matrix[k][x] :
                        \A n \in 1..Len(matrix[k][x][kk]) :
                            ResolvedAs(matrix[k][x][kk][n], kk))
    /\ [][AtStrayLink => matrix' = matrix]_vars

====
